---- MODULE Spec2Model ----
(***************************************************************************)
(* st2common/fields.py: ComplexDateTimeField (microsecond timestamps kept  *)
(* as an integer count of microseconds since the Unix epoch) and            *)
(* JSONDictField / JSONDictEscapedFieldCompatibilityField (dictionaries     *)
(* kept as serialized JSON, with a read path for the older escaped-key      *)
(* native dictionaries).                                                    *)
(*                                                                          *)
(* Python values are records tagged by their runtime type in field t:       *)
(*   [t |-> "None"], [t |-> "int", n |-> limbs], [t |-> "datetime", ...],   *)
(*   [t |-> "str", s |-> chars], [t |-> "bytes", b |-> chars],              *)
(*   [t |-> "dict", items |-> <<key, value>> pairs], "list", "tuple".       *)
(* A call that raises yields [t |-> "raise", exc |-> <exception type>].     *)
(***************************************************************************)
EXTENDS Integers, Sequences, FiniteSets, TLC

VARIABLES
    ret,        \* the last call made: [op, arg, out] (and the backend calls it made)
    data,       \* ComplexDateTimeField: the value held for the field on the document
    lastSet,    \* history: how data was last written, and with which value
    stored,     \* JSONDictEscapedFieldCompatibilityField: the value in the database
    doc,        \* ... and the value the application holds after a read
    written     \* history: the form the stored value started in, and whether it was written since

vars == <<ret, data, lastSet, stored, doc, written>>

None == [t |-> "None"]
Raise(e) == [t |-> "raise", exc |-> e]
Raised(r) == r.t = "raise"

----------------------------------------------------------------------------
(* Python's int is arbitrary precision; the evaluator's integers are 32    *)
(* bits.  An int is kept as Limbs digits in base Base, least significant    *)
(* first; the last digit carries the sign, the others lie in 0..Base-1.     *)

Base == 1000
Limbs == 7

RECURSIVE Carry(_, _, _)
Carry(ls, i, c) ==
    LET v == ls[i] + c
    IN  IF i = Limbs THEN <<v>>
        ELSE <<v % Base>> \o Carry(ls, i + 1, v \div Base)

IntOf(x) == Carry([i \in 1..Limbs |-> IF i = 1 THEN x ELSE 0], 1, 0)

IntAdd(a, b) == Carry([i \in 1..Limbs |-> a[i] + b[i]], 1, 0)

\* a * k for a machine-sized k
IntMul(a, k) == Carry([i \in 1..Limbs |-> a[i] * k], 1, 0)

\* divmod(a, d) for a machine-sized d > 0: floor division, 0 <= r < d
RECURSIVE IntDivMod(_, _, _)
IntDivMod(a, d, i) ==
    IF i = Limbs THEN [q |-> <<a[i] \div d>>, r |-> a[i] % d]
    ELSE LET hi  == IntDivMod(a, d, i + 1)
             cur == hi.r * Base + a[i]
         IN  [q |-> <<cur \div d>> \o hi.q, r |-> cur % d]

IntFloorDiv(a, d) == IntDivMod(a, d, 1).q
IntMod(a, d) == IntDivMod(a, d, 1).r

RECURSIVE IntLessFrom(_, _, _)
IntLessFrom(a, b, i) ==
    IF a[i] # b[i] THEN a[i] < b[i]
    ELSE IF i = 1 THEN FALSE
    ELSE IntLessFrom(a, b, i - 1)

IntLess(a, b) == IntLessFrom(a, b, Limbs)
IntLeq(a, b) == a = b \/ IntLess(a, b)

\* the machine-sized value of an int that has one
RECURSIVE IntSmallFrom(_, _)
IntSmallFrom(a, i) ==
    IF i = Limbs THEN a[i] ELSE a[i] + Base * IntSmallFrom(a, i + 1)

IntSmall(a) == IntSmallFrom(a, 1)

PyInt(n) == [t |-> "int", n |-> n]

----------------------------------------------------------------------------
(* The calendar arithmetic behind calendar.timegm and                       *)
(* datetime.utcfromtimestamp (the proleptic Gregorian ordinal of            *)
(* datetime.py).                                                            *)

SECOND_TO_MICROSECONDS == 1000000

_EPOCH_ORD == 719163
MINYEAR == 1
MAXYEAR == 9999

_is_leap(year) == year % 4 = 0 /\ (year % 100 # 0 \/ year % 400 = 0)

_DAYS_IN_MONTH == <<31, 28, 31, 30, 31, 30, 31, 31, 30, 31, 30, 31>>

_DAYS_BEFORE_MONTH == <<0, 31, 59, 90, 120, 151, 181, 212, 243, 273, 304, 334>>

_days_in_month(year, month) ==
    IF month = 2 /\ _is_leap(year) THEN 29 ELSE _DAYS_IN_MONTH[month]

_days_before_month(year, month) ==
    _DAYS_BEFORE_MONTH[month] + (IF month > 2 /\ _is_leap(year) THEN 1 ELSE 0)

_days_before_year(year) ==
    LET y == year - 1
    IN  y * 365 + (y \div 4) - (y \div 100) + (y \div 400)

_ymd2ord(year, month, day) ==
    _days_before_year(year) + _days_before_month(year, month) + day

_DI400Y == 146097
_DI100Y == 36524
_DI4Y == 1461

_ord2ymd(ordinal) ==
    LET n0   == ordinal - 1
        n400 == n0 \div _DI400Y
        na   == n0 % _DI400Y
        n100 == na \div _DI100Y
        nb   == na % _DI100Y
        n4   == nb \div _DI4Y
        nc   == nb % _DI4Y
        n1   == nc \div 365
        n    == nc % 365
        year == n400 * 400 + 1 + n100 * 100 + n4 * 4 + n1
    IN  IF n1 = 4 \/ n100 = 4 THEN <<year - 1, 12, 31>>
        ELSE
          LET leapyear == n1 = 3 /\ (n4 # 24 \/ n100 = 3)
              extra(m) == IF m > 2 /\ leapyear THEN 1 ELSE 0
              guess    == (n + 50) \div 32
              before   == _DAYS_BEFORE_MONTH[guess] + extra(guess)
              month    == IF before > n THEN guess - 1 ELSE guess
              preceding == _DAYS_BEFORE_MONTH[month] + extra(month)
          IN  <<year, month, n - preceding + 1>>

----------------------------------------------------------------------------
(* datetime values and the two conversions of ComplexDateTimeField.        *)

DateTime(y, mo, d, h, mi, sec, us, tz) ==
    [t |-> "datetime", year |-> y, month |-> mo, day |-> d, hour |-> h,
     minute |-> mi, second |-> sec, microsecond |-> us, tzinfo |-> tz]

\* tzinfo.utcoffset(value) in minutes; a naive datetime has tzinfo None
utcoffset(tz) ==
    CASE tz = "UTC" -> 0
      [] tz = "GMT" -> 0
      [] tz = "CET" -> 60
      [] tz = "EST" -> -300

\* calendar.timegm(value.timetuple()): the fields read as UTC, whole seconds
timegm(value) ==
    LET days  == _ymd2ord(value.year, value.month, 1) - _EPOCH_ORD + value.day - 1
        hours == days * 24 + value.hour
        minutes == IntAdd(IntMul(IntOf(hours), 60), IntOf(value.minute))
    IN  IntAdd(IntMul(minutes, 60), IntOf(value.second))

\* the seconds datetime can represent: years MINYEAR..MAXYEAR
MinTimestamp == IntMul(IntOf(_ymd2ord(MINYEAR, 1, 1) - _EPOCH_ORD), 86400)
MaxTimestamp ==
    IntAdd(IntMul(IntOf(_ymd2ord(MAXYEAR, 12, 31) - _EPOCH_ORD + 1), 86400), IntOf(-1))

\* datetime.datetime.utcfromtimestamp(secs) for an int: a naive datetime
utcfromtimestamp(secs) ==
    IF IntLess(secs, MinTimestamp) \/ IntLess(MaxTimestamp, secs)
    THEN Raise("ValueError")
    ELSE LET days == IntSmall(IntFloorDiv(secs, 86400))
             rem  == IntMod(secs, 86400)
             ymd  == _ord2ymd(days + _EPOCH_ORD)
         IN  DateTime(ymd[1], ymd[2], ymd[3], rem \div 3600, (rem % 3600) \div 60,
                      rem % 60, 0, "naive")

\* st2common.util.date.add_utc_tz: the same fields, marked as UTC
add_utc_tz(dt) == [dt EXCEPT !.tzinfo = "UTC"]

\* as _microseconds_since_epoch_to_datetime, the microseconds not put back
Mut_decode_drops_microseconds(d) ==
    IF d.t # "int" THEN Raise("TypeError")
    ELSE LET result == utcfromtimestamp(IntFloorDiv(d.n, SECOND_TO_MICROSECONDS))
         IN  IF Raised(result) THEN result ELSE add_utc_tz(result)

_microseconds_since_epoch_to_datetime(d) ==
    IF d.t # "int" THEN Raise("TypeError")
    ELSE LET result == utcfromtimestamp(IntFloorDiv(d.n, SECOND_TO_MICROSECONDS))
             microseconds_reminder == IntMod(d.n, SECOND_TO_MICROSECONDS)
         IN  IF Raised(result) THEN result
             ELSE add_utc_tz([result EXCEPT !.microsecond = microseconds_reminder])

\* as BadTimezone, the UTC offset not looked at
Mut_only_naive_rejected(value) == value.tzinfo = "naive"

BadTimezone(value) == value.tzinfo = "naive" \/ utcoffset(value.tzinfo) # 0

\* as _datetime_to_microseconds_since_epoch, the microseconds not added
Mut_encode_drops_microseconds(value) ==
    IF value.t # "datetime" THEN Raise("AttributeError")
    ELSE IF BadTimezone(value) THEN Raise("ValueError")
    ELSE PyInt(IntMul(timegm(value), SECOND_TO_MICROSECONDS))

\* as _datetime_to_microseconds_since_epoch, the seconds scaled to milliseconds
Mut_encode_milliseconds(value) ==
    IF value.t # "datetime" THEN Raise("AttributeError")
    ELSE IF BadTimezone(value) THEN Raise("ValueError")
    ELSE PyInt(IntAdd(IntMul(timegm(value), 1000), IntOf(value.microsecond)))

_datetime_to_microseconds_since_epoch(value) ==
    IF value.t # "datetime" THEN Raise("AttributeError")
    ELSE IF BadTimezone(value) THEN Raise("ValueError")
    ELSE LET seconds == timegm(value)
             microseconds_reminder == value.microsecond
         IN  PyInt(IntAdd(IntMul(seconds, SECOND_TO_MICROSECONDS),
                          IntOf(microseconds_reminder)))

_convert_from_datetime(val) == _datetime_to_microseconds_since_epoch(val)

_convert_from_db(value) == _microseconds_since_epoch_to_datetime(value)

\* as to_python, the exception of the conversion let through
Mut_to_python_raises(value) == _convert_from_db(value)

\* to_python: any exception of the conversion gives the input back
to_python(value) ==
    LET r == _convert_from_db(value)
    IN  IF Raised(r) THEN value ELSE r

to_mongo(value) == _convert_from_datetime(to_python(value))

prepare_query_value(value) == _convert_from_datetime(value)

validate(value) ==
    IF to_python(value).t # "datetime" THEN Raise("ValidationError") ELSE None

\* bool(value) of the values modelled
Truthy(value) ==
    CASE value.t = "None" -> FALSE
      [] value.t = "int" -> value.n # IntOf(0)
      [] value.t = "str" -> value.s # <<>>
      [] OTHER -> TRUE

\* __get__ on the value held for the field
field_get(held) ==
    IF held.t = "None" THEN None
    ELSE IF held.t = "datetime" THEN held
    ELSE _convert_from_db(held)

\* as field_set, the value held as it was given
Mut_set_without_conversion(value) == value

\* __set__: the value handed on to be held for the field
field_set(value) ==
    IF Truthy(value) THEN _convert_from_datetime(value) ELSE value

----------------------------------------------------------------------------
(* The values the calls are made with.                                      *)

MaxDay == 1          \* days sampled from each end of a month
MicroSpan == 1       \* microseconds sampled from each end of a second

SampleYears == {MINYEAR, 1969, 1970, 1972, 2000, 2021, 2100, MAXYEAR}
SampleMonths == {1, 2, 3, 12}
SampleDays(y, mo) ==
    LET last == _days_in_month(y, mo)
    IN  (1..MaxDay) \cup ((last - MaxDay + 1)..last)
SampleTimes == {<<0, 0, 0>>, <<23, 59, 59>>}
SampleMicros ==
    (0..(MicroSpan - 1)) \cup {123456}
        \cup ((SECOND_TO_MICROSECONDS - MicroSpan)..(SECOND_TO_MICROSECONDS - 1))

SampleDates ==
    UNION {{<<y, mo, d>> : d \in SampleDays(y, mo)} : y \in SampleYears, mo \in SampleMonths}

\* timestamps in UTC
UtcDatetimes ==
    {DateTime(ymd[1], ymd[2], ymd[3], hms[1], hms[2], hms[3], us, "UTC") :
        ymd \in SampleDates, hms \in SampleTimes, us \in SampleMicros}
    \cup {DateTime(2021, 3, 15, 10, 30, 0, us, "UTC") : us \in SampleMicros}

\* the same instants of a day under other tzinfo: none, offset zero, offsets not zero
OtherTzDatetimes ==
    {DateTime(ymd[1], ymd[2], ymd[3], 10, 30, 0, 123456, tz) :
        ymd \in SampleDates, tz \in {"naive", "GMT", "CET", "EST"}}

Datetimes == UtcDatetimes \cup OtherTzDatetimes

\* a * 10^12 + b * 10^6 + c
Lit(a, b, c) ==
    IntAdd(IntMul(IntAdd(IntMul(IntOf(a), 1000000), IntOf(b)), 1000000), IntOf(c))

MaxInt64 == Lit(9223372, 36854, 775807)
MinInt64 == IntAdd(IntMul(MaxInt64, -1), IntOf(-1))

\* whole seconds since the epoch: around it, before it, and at both ends of datetime
SampleSeconds ==
    {Lit(0, 0, x) : x \in {-86401, -86400, -1, 0, 1, 86399, 86400, 68255999, 1615804200}}
    \cup {Lit(0, -62135, -596801), Lit(0, -62135, -596800),
          Lit(0, 253402, 300799), Lit(0, 253402, 300800)}

SampleInts ==
    {PyInt(IntAdd(IntMul(sec, SECOND_TO_MICROSECONDS), IntOf(us))) :
        sec \in SampleSeconds, us \in SampleMicros}
    \cup {PyInt(MinInt64), PyInt(MaxInt64)}

Str(chars) == [t |-> "str", s |-> chars]

TimeInputs == Datetimes \cup SampleInts \cup {None, Str(<<"a">>)}

\* the values the field is used with on one document
FieldSamples ==
    {DateTime(1970, 1, 1, 0, 0, 0, 0, "UTC"),
     DateTime(1969, 12, 31, 23, 59, 59, 999999, "UTC"),
     DateTime(2021, 3, 15, 10, 30, 0, 123456, "UTC"),
     DateTime(2000, 2, 29, 0, 0, 0, 1, "GMT"),
     DateTime(MAXYEAR, 12, 31, 23, 59, 59, 999999, "UTC"),
     DateTime(2021, 3, 15, 10, 30, 0, 123456, "naive"),
     DateTime(2021, 3, 15, 10, 30, 0, 123456, "CET"),
     DateTime(1970, 1, 1, 0, 0, 0, 0, "EST"),
     None, PyInt(IntOf(0)), PyInt(Lit(1615, 804200, 123456)),
     PyInt(MaxInt64), Str(<<>>)}

----------------------------------------------------------------------------
(* The calls.  Every call records itself in ret.                            *)

Call(op, arg, out) == [op |-> op, arg |-> arg, out |-> out, calls |-> <<>>]

NoCall == Call("none", None, None)

\* a value about to be passed to one call
Pending(v) == Call("none", v, None)

NoSet == [how |-> "init", value |-> None]

NoWrites == [start |-> "None", any |-> FALSE]

Encode(v) ==
    /\ ret' = Call("_convert_from_datetime", v, _convert_from_datetime(v))
    /\ UNCHANGED <<data, lastSet, stored, doc, written>>

Decode(v) ==
    /\ ret' = Call("_convert_from_db", v, _convert_from_db(v))
    /\ UNCHANGED <<data, lastSet, stored, doc, written>>

ToPython(v) ==
    /\ ret' = Call("to_python", v, to_python(v))
    /\ UNCHANGED <<data, lastSet, stored, doc, written>>

ToMongo(v) ==
    /\ ret' = Call("to_mongo", v, to_mongo(v))
    /\ UNCHANGED <<data, lastSet, stored, doc, written>>

PrepareQueryValue(v) ==
    /\ ret' = Call("prepare_query_value", v, prepare_query_value(v))
    /\ UNCHANGED <<data, lastSet, stored, doc, written>>

Validate(v) ==
    /\ ret' = Call("validate", v, validate(v))
    /\ UNCHANGED <<data, lastSet, stored, doc, written>>

\* document.field = v: a conversion that raises leaves the document as it was
Set(v) ==
    LET value == field_set(v)
    IN  /\ ret' = Call("__set__", v, IF Raised(value) THEN value ELSE None)
        /\ data' = IF Raised(value) THEN data ELSE value
        /\ lastSet' = IF Raised(value) THEN lastSet ELSE [how |-> "set", value |-> v]
        /\ UNCHANGED <<stored, doc, written>>

\* document.field
Get ==
    /\ ret' = Call("__get__", data, field_get(data))
    /\ UNCHANGED <<data, lastSet, stored, doc, written>>

\* the conversions, on every kind of value
TimeInit ==
    /\ ret \in {Pending(v) : v \in TimeInputs}
    /\ data = None
    /\ lastSet = NoSet
    /\ stored = None
    /\ doc = None
    /\ written = NoWrites

EncodePending == ret.op = "none" /\ Encode(ret.arg)
DecodePending == ret.op = "none" /\ Decode(ret.arg)
ToPythonPending == ret.op = "none" /\ ToPython(ret.arg)

TimeNext == EncodePending \/ DecodePending \/ ToPythonPending

SpecTime == TimeInit /\ [][TimeNext]_vars

\* one field of one document; the document layer may hold a value it placed itself
FieldInit ==
    /\ ret = NoCall
    /\ data \in {None, DateTime(2021, 3, 15, 10, 30, 0, 123456, "UTC")}
    /\ lastSet = NoSet
    /\ stored = None
    /\ doc = None
    /\ written = NoWrites

FieldNext ==
    \/ \E v \in FieldSamples :
          Set(v) \/ ToMongo(v) \/ PrepareQueryValue(v) \/ Validate(v) \/ Encode(v)
    \/ Get

SpecField == FieldInit /\ [][FieldNext]_vars

----------------------------------------------------------------------------
(* Properties of the timestamp conversions.                                 *)

IsDatetime(v) == v.t = "datetime"

\* a timestamp with timezone information whose UTC offset is zero
ValidUtc(v) == IsDatetime(v) /\ v.tzinfo # "naive" /\ utcoffset(v.tzinfo) = 0

Fields(v) == <<v.year, v.month, v.day, v.hour, v.minute, v.second, v.microsecond>>

\* == of two aware datetimes of the same UTC offset
DtEqual(a, b) ==
    /\ IsDatetime(a) /\ IsDatetime(b)
    /\ a.tzinfo # "naive" /\ b.tzinfo # "naive"
    /\ utcoffset(a.tzinfo) = utcoffset(b.tzinfo)
    /\ Fields(a) = Fields(b)

RECURSIVE LexLess(_, _, _)
LexLess(a, b, i) ==
    IF i > Len(a) THEN FALSE
    ELSE IF a[i] # b[i] THEN a[i] < b[i]
    ELSE LexLess(a, b, i + 1)

\* a is chronologically before b, both of UTC offset zero
Before(a, b) == LexLess(Fields(a), Fields(b), 1)

\* the integers that stand for the timestamps of the years 1 to 9999
MinMicroseconds == Lit(-62135, -596800, 0)
MaxMicroseconds == Lit(253402, 300799, 999999)
InDatetimeRange(v) ==
    v.t = "int" /\ IntLeq(MinMicroseconds, v.n) /\ IntLeq(v.n, MaxMicroseconds)
IsInt64(v) == v.t = "int" /\ IntLeq(MinInt64, v.n) /\ IntLeq(v.n, MaxInt64)

\* C1: decoding the integer that a UTC timestamp encodes to gives a timestamp equal
\* to it, microsecond field included, also before 1970.
C1_DecodeEncode ==
    (ret.op = "_convert_from_datetime" /\ ValidUtc(ret.arg)) =>
        /\ ret.out.t = "int"
        /\ LET back == _microseconds_since_epoch_to_datetime(ret.out)
           IN  /\ DtEqual(back, ret.arg)
               /\ back.microsecond = ret.arg.microsecond

C1_Witness ==
    /\ ret.op = "_convert_from_datetime"
    /\ ret.arg = DateTime(1969, 12, 31, 23, 59, 59, 999999, "UTC")
    /\ ret.out = PyInt(IntOf(-1))

\* what C2 says of a decoded n: it decoded, the whole seconds are floor(n / 10^6), the
\* microsecond is n mod 10^6, and encoding gives n back
DecodedRight(n, out) ==
    /\ IsDatetime(out)
    /\ out.microsecond \in 0..999999
    /\ LET secs == timegm(out)
       IN  /\ IntLeq(IntMul(secs, 1000000), n.n)
           /\ IntLess(n.n, IntMul(IntAdd(secs, IntOf(1)), 1000000))
           /\ n.n = IntAdd(IntMul(secs, 1000000), IntOf(out.microsecond))
    /\ _datetime_to_microseconds_since_epoch(out) = n

\* C2 as stated: every 64-bit integer decodes and encodes back to itself.
C2_AllInt64 ==
    (ret.op = "_convert_from_db" /\ IsInt64(ret.arg)) => DecodedRight(ret.arg, ret.out)

\* C2 as amended: every integer that stands for a timestamp of the years 1 to 9999
\* (zero and negative ones included) decodes and encodes back to itself; one outside
\* that range does not decode.
C2_EncodeDecode ==
    (ret.op = "_convert_from_db" /\ IsInt64(ret.arg)) =>
        IF InDatetimeRange(ret.arg) THEN DecodedRight(ret.arg, ret.out)
        ELSE Raised(ret.out)

C2_Witness ==
    /\ ret.op = "_convert_from_db"
    /\ ret.arg = PyInt(IntOf(-1))
    /\ ret.out = DateTime(1969, 12, 31, 23, 59, 59, 999999, "UTC")

\* C3: the order of the encoded integers is the chronological order of the
\* timestamps, and equal integers come from equal timestamps only.
EncodedUtc == [t2 \in UtcDatetimes |-> _datetime_to_microseconds_since_epoch(t2)]

C3_OrderPreserving ==
    (ret.op = "_convert_from_datetime" /\ ValidUtc(ret.arg)) =>
        \A t2 \in UtcDatetimes :
            LET n2 == EncodedUtc[t2]
            IN  /\ IntLess(ret.out.n, n2.n) <=> Before(ret.arg, t2)
                /\ IntLess(n2.n, ret.out.n) <=> Before(t2, ret.arg)
                /\ (ret.out.n = n2.n) <=> DtEqual(ret.arg, t2)

C3_Witness ==
    /\ ret.op = "_convert_from_datetime"
    /\ ret.arg = DateTime(2021, 3, 15, 10, 30, 0, 123456, "UTC")
    /\ ret.out = PyInt(Lit(1615, 804200, 123456))

\* C5: to_python never raises; an integer that decodes gives the decoded UTC
\* timestamp, anything else comes back as it was given.
C5_CoerceNeverRaises ==
    ret.op = "to_python" =>
        /\ ~Raised(ret.out)
        /\ IF InDatetimeRange(ret.arg)
           THEN /\ ValidUtc(ret.out)
                /\ _datetime_to_microseconds_since_epoch(ret.out) = ret.arg
           ELSE ret.out = ret.arg

C5_Witness ==
    /\ ret.op = "to_python"
    /\ ret.arg = PyInt(MaxInt64)
    /\ ret.out = ret.arg

\* the write-side entry points that encode
EncodingCalls == {"_convert_from_datetime", "__set__", "to_mongo", "prepare_query_value"}

\* a timestamp without timezone information, or of a UTC offset that is not zero
WrongTimezone(v) == IsDatetime(v) /\ (v.tzinfo = "naive" \/ utcoffset(v.tzinfo) # 0)

C10_FieldHoldsEncoded ==
    /\ lastSet.how = "set" =>
          /\ lastSet.value = None => data = None
          /\ ValidUtc(lastSet.value) =>
                /\ data.t = "int"
                /\ data = _datetime_to_microseconds_since_epoch(lastSet.value)
          /\ ~Truthy(lastSet.value) => data = lastSet.value
          /\ data.t # "datetime"
    /\ ret.op = "__get__" =>
          /\ data = None => ret.out = None
          /\ IsDatetime(data) => ret.out = data
          /\ (lastSet.how = "set" /\ ValidUtc(lastSet.value)) =>
                DtEqual(ret.out, lastSet.value)

C10_Witness ==
    /\ ret.op = "__get__"
    /\ lastSet = [how |-> "set", value |-> DateTime(1969, 12, 31, 23, 59, 59, 999999, "UTC")]
    /\ data = PyInt(IntOf(-1))
    /\ ret.out = lastSet.value

----------------------------------------------------------------------------
(* JSONDictField and JSONDictEscapedFieldCompatibilityField.                *)
(* A str is a sequence of characters, bytes a sequence of octets; the two   *)
(* fullwidth characters that the old format put in keys for '$' and '.' are *)
(* the characters "U+FF04" and "U+FF0E", three octets each in UTF-8.        *)

Dict(items) == [t |-> "dict", items |-> items]
List(elems) == [t |-> "list", elems |-> elems]
Tuple(elems) == [t |-> "tuple", elems |-> elems]
Bytes(octets) == [t |-> "bytes", b |-> octets]

Utf8Char(c) ==
    CASE c = "U+FF04" -> <<"xEF", "xBC", "x84">>
      [] c = "U+FF0E" -> <<"xEF", "xBC", "x8E">>
      [] OTHER -> <<c>>

RECURSIVE Utf8Encode(_)
Utf8Encode(chars) ==
    IF chars = <<>> THEN <<>> ELSE Utf8Char(Head(chars)) \o Utf8Encode(Tail(chars))

\* the characters of valid UTF-8 octets, <<"invalid">> otherwise
RECURSIVE Utf8Decode(_)
Utf8Decode(octets) ==
    IF octets = <<>> THEN <<>>
    ELSE IF Head(octets) \in {"xEF", "xBC", "x84", "x8E"}
    THEN IF Len(octets) >= 3 /\ SubSeq(octets, 1, 3) \in {Utf8Char("U+FF04"), Utf8Char("U+FF0E")}
         THEN LET rest == Utf8Decode(SubSeq(octets, 4, Len(octets)))
              IN  IF rest = <<"invalid">> THEN rest
                  ELSE <<IF octets[3] = "x84" THEN "U+FF04" ELSE "U+FF0E">> \o rest
         ELSE <<"invalid">>
    ELSE LET rest == Utf8Decode(Tail(octets))
         IN  IF rest = <<"invalid">> THEN rest ELSE <<Head(octets)>> \o rest

Digits == <<"0", "1", "2", "3", "4", "5", "6", "7", "8", "9">>
IsDigit(c) == \E k \in 1..10 : Digits[k] = c
DigitValue(c) == (CHOOSE k \in 1..10 : Digits[k] = c) - 1

RECURSIVE Decimal(_)
Decimal(k) ==
    IF k < 10 THEN <<Digits[k + 1]>> ELSE Decimal(k \div 10) \o <<Digits[(k % 10) + 1]>>

\* what the backend can serialize: None, int, str, and lists, tuples and dicts of those
RECURSIVE Encodable(_)
Encodable(v) ==
    CASE v.t \in {"None", "int", "str"} -> TRUE
      [] v.t \in {"list", "tuple"} -> \A i \in 1..Len(v.elems) : Encodable(v.elems[i])
      [] v.t = "dict" -> \A i \in 1..Len(v.items) : Encodable(v.items[i][2])
      [] OTHER -> FALSE

\* the compact JSON text of a value; a tuple is written as an array, like a list
RECURSIVE Dump(_), DumpItems(_, _), DumpElems(_, _)
Dump(v) ==
    CASE v.t = "None" -> <<"n", "u", "l", "l">>
      [] v.t = "int" ->
            IF IntLess(v.n, IntOf(0)) THEN <<"-">> \o Decimal(0 - IntSmall(v.n))
            ELSE Decimal(IntSmall(v.n))
      [] v.t = "str" -> <<"\"">> \o v.s \o <<"\"">>
      [] v.t \in {"list", "tuple"} -> <<"[">> \o DumpElems(v.elems, 1) \o <<"]">>
      [] v.t = "dict" -> <<"{">> \o DumpItems(v.items, 1) \o <<"}">>

DumpItems(items, i) ==
    IF i > Len(items) THEN <<>>
    ELSE (IF i > 1 THEN <<",">> ELSE <<>>)
            \o <<"\"">> \o items[i][1] \o <<"\"", ":">> \o Dump(items[i][2])
            \o DumpItems(items, i + 1)

DumpElems(elems, i) ==
    IF i > Len(elems) THEN <<>>
    ELSE (IF i > 1 THEN <<",">> ELSE <<>>) \o Dump(elems[i]) \o DumpElems(elems, i + 1)

\* d[key] = value on the items of a dict
Put(items, key, value) ==
    IF \E i \in 1..Len(items) : items[i][1] = key
    THEN [i \in 1..Len(items) |-> IF items[i][1] = key THEN <<key, value>> ELSE items[i]]
    ELSE Append(items, <<key, value>>)

Parsed(val, pos) == [ok |-> TRUE, val |-> val, pos |-> pos]
NotParsed == [ok |-> FALSE, val |-> None, pos |-> 0]
At(cs, i) == IF i <= Len(cs) THEN cs[i] ELSE "EOF"

RECURSIVE ParseValue(_, _), ParseMembers(_, _, _), ParseElems(_, _, _),
          ParseChars(_, _, _), ParseDigits(_, _, _)

\* the characters of a string up to its closing quote
ParseChars(cs, i, acc) ==
    IF i > Len(cs) THEN NotParsed
    ELSE IF cs[i] = "\"" THEN Parsed(acc, i + 1)
    ELSE ParseChars(cs, i + 1, Append(acc, cs[i]))

ParseDigits(cs, i, acc) ==
    IF IsDigit(At(cs, i)) THEN ParseDigits(cs, i + 1, acc * 10 + DigitValue(cs[i]))
    ELSE Parsed(acc, i)

ParseValue(cs, i) ==
    LET c == At(cs, i)
    IN  CASE c = "{" ->
                IF At(cs, i + 1) = "}" THEN Parsed(Dict(<<>>), i + 2)
                ELSE ParseMembers(cs, i + 1, <<>>)
          [] c = "[" ->
                IF At(cs, i + 1) = "]" THEN Parsed(List(<<>>), i + 2)
                ELSE ParseElems(cs, i + 1, <<>>)
          [] c = "\"" ->
                LET r == ParseChars(cs, i + 1, <<>>)
                IN  IF r.ok THEN Parsed(Str(r.val), r.pos) ELSE NotParsed
          [] c = "-" ->
                IF IsDigit(At(cs, i + 1))
                THEN LET r == ParseDigits(cs, i + 1, 0)
                     IN  Parsed(PyInt(IntOf(0 - r.val)), r.pos)
                ELSE NotParsed
          [] IsDigit(c) ->
                LET r == ParseDigits(cs, i, 0)
                IN  Parsed(PyInt(IntOf(r.val)), r.pos)
          [] c = "n" ->
                IF i + 3 <= Len(cs) /\ SubSeq(cs, i, i + 3) = <<"n", "u", "l", "l">>
                THEN Parsed(None, i + 4) ELSE NotParsed
          [] OTHER -> NotParsed

ParseMembers(cs, i, acc) ==
    IF At(cs, i) # "\"" THEN NotParsed
    ELSE LET k == ParseChars(cs, i + 1, <<>>)
         IN  IF ~k.ok \/ At(cs, k.pos) # ":" THEN NotParsed
             ELSE LET v == ParseValue(cs, k.pos + 1)
                  IN  IF ~v.ok THEN NotParsed
                      ELSE LET items == Put(acc, k.val, v.val)
                           IN  CASE At(cs, v.pos) = "," -> ParseMembers(cs, v.pos + 1, items)
                                 [] At(cs, v.pos) = "}" -> Parsed(Dict(items), v.pos + 1)
                                 [] OTHER -> NotParsed

ParseElems(cs, i, acc) ==
    LET v == ParseValue(cs, i)
    IN  IF ~v.ok THEN NotParsed
        ELSE CASE At(cs, v.pos) = "," -> ParseElems(cs, v.pos + 1, Append(acc, v.val))
               [] At(cs, v.pos) = "]" -> Parsed(List(Append(acc, v.val)), v.pos + 1)
               [] OTHER -> NotParsed

\* self.json_dumps: the value as UTF-8 JSON
json_dumps(value) ==
    IF Encodable(value) THEN Bytes(Utf8Encode(Dump(value))) ELSE Raise("TypeError")

\* self.json_loads, of a str or of bytes
json_loads(value) ==
    LET cs == IF value.t = "bytes" THEN Utf8Decode(value.b) ELSE value.s
        r  == ParseValue(cs, 1)
    IN  IF cs # <<"invalid">> /\ r.ok /\ r.pos = Len(cs) + 1 THEN r.val
        ELSE Raise("ValueError")

\* mongoescape.unescape_chars on one key
UnescapeChar(c) ==
    CASE c = "U+FF04" -> "$"
      [] c = "U+FF0E" -> "."
      [] OTHER -> c

UnescapeKey(key) == [i \in 1..Len(key) |-> UnescapeChar(key[i])]

\* mongoescape.unescape_chars: the keys of a dict restored, through nested dicts
RECURSIVE unescape_chars(_), UnescapeItems(_, _, _)
unescape_chars(field) ==
    IF field.t # "dict" THEN field
    ELSE Dict(UnescapeItems(field.items, 1, <<>>))

UnescapeItems(items, i, acc) ==
    IF i > Len(items) THEN acc
    ELSE UnescapeItems(items, i + 1,
                       Put(acc, UnescapeKey(items[i][1]), unescape_chars(items[i][2])))

\* the outcome of a call and the backend calls it made, in order
Outcome(out, calls) == [out |-> out, calls |-> calls]

\* as JSONDictField_to_mongo, the type of the value not checked
Mut_to_mongo_unchecked(value) == Outcome(json_dumps(value), <<"json_dumps">>)

JSONDictField_to_mongo(value) ==
    IF value.t # "dict" THEN Outcome(Raise("ValueError"), <<>>)
    ELSE Outcome(json_dumps(value), <<"json_dumps">>)

JSONDictField_to_python(value) ==
    IF value.t \in {"str", "bytes"} THEN Outcome(json_loads(value), <<"json_loads">>)
    ELSE Outcome(value, <<>>)

\* as Compat_to_mongo, a dictionary written as it is
Mut_compat_to_mongo_native(value) ==
    IF value.t # "dict" THEN Outcome(Raise("ValueError"), <<>>)
    ELSE Outcome(value, <<>>)

Compat_to_mongo(value) ==
    IF value.t # "dict" THEN Outcome(Raise("ValueError"), <<>>)
    ELSE Outcome(json_dumps(value), <<"json_dumps">>)

\* as Compat_to_python, a dictionary not told from any other value
Mut_compat_to_python_no_legacy(value) ==
    IF value.t \in {"str", "bytes"} THEN Outcome(json_loads(value), <<"json_loads">>)
    ELSE Outcome(value, <<>>)

\* as Compat_to_python, the keys restored in what the backend deserialized too
Mut_compat_to_python_unescapes_all(value) ==
    IF value.t = "dict" THEN Outcome(unescape_chars(value), <<>>)
    ELSE IF value.t \in {"str", "bytes"}
    THEN LET r == json_loads(value)
         IN  Outcome(IF Raised(r) THEN r ELSE unescape_chars(r), <<"json_loads">>)
    ELSE Outcome(value, <<>>)

Compat_to_python(value) ==
    IF value.t = "dict" THEN Outcome(unescape_chars(value), <<>>)
    ELSE IF value.t \in {"str", "bytes"} THEN Outcome(json_loads(value), <<"json_loads">>)
    ELSE Outcome(value, <<>>)

\* BinaryField.validate of what to_mongo returned (no max_bytes)
BinaryField_validate(value) ==
    IF value.t # "bytes" THEN Raise("ValidationError") ELSE None

\* validate: to_mongo of the class of the field, then the validation of the bytes
JSONDictField_validate(value) ==
    LET r == JSONDictField_to_mongo(value)
    IN  IF Raised(r.out) THEN r ELSE Outcome(BinaryField_validate(r.out), r.calls)

Compat_validate(value) ==
    LET r == Compat_to_mongo(value)
    IN  IF Raised(r.out) THEN r ELSE Outcome(BinaryField_validate(r.out), r.calls)

----------------------------------------------------------------------------
(* The values the dictionary fields are used with.                          *)

MaxItems == 2        \* items of a dictionary of plain values
MaxDepth == 2        \* dictionaries inside dictionaries

SampleKeys == {<<"a">>, <<"$", "a">>, <<"U+FF04", "a">>, <<"a", "U+FF0E", "b">>}

Leaves ==
    {None, PyInt(IntOf(3)), Str(<<"o", "k">>), List(<<PyInt(IntOf(3)), None>>),
     Tuple(<<PyInt(IntOf(3))>>)}

DistinctKeys(items) ==
    \A i, j \in 1..Len(items) : items[i][1] = items[j][1] => i = j

\* dictionaries of at most MaxItems plain values
FlatDicts ==
    {Dict(items) : items \in
        {its \in UNION {[1..n -> SampleKeys \X Leaves] : n \in 0..MaxItems} :
            DistinctKeys(its)}}

\* a dictionary in a dictionary, MaxDepth deep at most
RECURSIVE Nested(_)
Nested(depth) ==
    IF depth = 0 THEN Leaves
    ELSE Leaves \cup {Dict(<<>>)}
            \cup {Dict(<< <<k, v>> >>) : k \in SampleKeys, v \in Nested(depth - 1)}

Dicts == FlatDicts \cup {d \in Nested(MaxDepth) : d.t = "dict"}

\* values that are no dictionaries, and a dictionary the backend cannot serialize
NonDicts ==
    {None, PyInt(IntOf(3)), Str(<<"o", "k">>), Str(<<"3">>), Bytes(<<"{">>),
     Bytes(<<"xEF", "3">>),
     List(<<PyInt(IntOf(3))>>), DateTime(2021, 3, 15, 10, 30, 0, 123456, "UTC")}

Unserializable == Dict(<< <<(<<"a">>), Bytes(<<"3">>)>> >>)

\* what is found in the database: serialized JSON as bytes or as text
Serialized == {json_dumps(m) : m \in Dicts} \cup {Str(Dump(m)) : m \in FlatDicts}

StructInputs == Dicts \cup Serialized \cup NonDicts \cup {Unserializable}

StructCall(op, arg, r) == [op |-> op, arg |-> arg, out |-> r.out, calls |-> r.calls]

DictToMongo ==
    /\ ret.op = "none"
    /\ ret' = StructCall("JSONDictField.to_mongo", ret.arg, JSONDictField_to_mongo(ret.arg))
    /\ UNCHANGED <<data, lastSet, stored, doc, written>>

DictToPython ==
    /\ ret.op = "none"
    /\ ret' = StructCall("JSONDictField.to_python", ret.arg, JSONDictField_to_python(ret.arg))
    /\ UNCHANGED <<data, lastSet, stored, doc, written>>

DictValidate ==
    /\ ret.op = "none"
    /\ ret' = StructCall("JSONDictField.validate", ret.arg, JSONDictField_validate(ret.arg))
    /\ UNCHANGED <<data, lastSet, stored, doc, written>>

CompatToMongo ==
    /\ ret.op = "none"
    /\ ret' = StructCall("Compat.to_mongo", ret.arg, Compat_to_mongo(ret.arg))
    /\ UNCHANGED <<data, lastSet, stored, doc, written>>

CompatToPython ==
    /\ ret.op = "none"
    /\ ret' = StructCall("Compat.to_python", ret.arg, Compat_to_python(ret.arg))
    /\ UNCHANGED <<data, lastSet, stored, doc, written>>

CompatValidate ==
    /\ ret.op = "none"
    /\ ret' = StructCall("Compat.validate", ret.arg, Compat_validate(ret.arg))
    /\ UNCHANGED <<data, lastSet, stored, doc, written>>

StructInit ==
    /\ ret \in {Pending(v) : v \in StructInputs}
    /\ data = None
    /\ lastSet = NoSet
    /\ stored = None
    /\ doc = None
    /\ written = NoWrites

StructNext ==
    \/ DictToMongo \/ DictToPython \/ DictValidate
    \/ CompatToMongo \/ CompatToPython \/ CompatValidate

SpecStruct == StructInit /\ [][StructNext]_vars

\* one stored field over the life of its document: loaded, assigned to, saved
RawKey(key) == \E i \in 1..Len(key) : key[i] \in {"$", "."}

RECURSIVE HasRawKey(_)
HasRawKey(v) ==
    v.t = "dict" /\ \E i \in 1..Len(v.items) : RawKey(v.items[i][1]) \/ HasRawKey(v.items[i][2])

\* the old format: a native dictionary, no '$' or '.' left in its keys
LegacyStored == {d \in Dicts : ~HasRawKey(d)}

AssignSamples ==
    {Dict(<<>>), Dict(<< <<(<<"$", "a">>), PyInt(IntOf(3))>> >>),
     Dict(<< <<(<<"U+FF04", "a">>), Str(<<"o", "k">>)>> >>),
     Unserializable, None, PyInt(IntOf(3))}

\* the document is built from the database
Load ==
    LET r == Compat_to_python(stored)
    IN  /\ ret' = StructCall("load", stored, r)
        /\ doc' = IF Raised(r.out) THEN doc ELSE r.out
        /\ UNCHANGED <<data, lastSet, stored, written>>

\* document.field = v
Assign(v) ==
    /\ doc' = v
    /\ ret' = StructCall("assign", v, Outcome(None, <<>>))
    /\ UNCHANGED <<data, lastSet, stored, written>>

\* the document is saved: a value that cannot be written leaves the database as it was
Save ==
    LET r == Compat_to_mongo(doc)
    IN  /\ ret' = StructCall("save", doc, r)
        /\ stored' = IF Raised(r.out) THEN stored ELSE r.out
        /\ written' = IF Raised(r.out) THEN written ELSE [written EXCEPT !.any = TRUE]
        /\ UNCHANGED <<data, lastSet, doc>>

StoreInit ==
    /\ stored \in LegacyStored \cup {json_dumps(m) : m \in FlatDicts}
    /\ written = [start |-> stored.t, any |-> FALSE]
    /\ ret = NoCall
    /\ doc = None
    /\ data = None
    /\ lastSet = NoSet

StoreNext == Load \/ Save \/ \E v \in AssignSamples : Assign(v)

SpecStore == StoreInit /\ [][StoreNext]_vars

----------------------------------------------------------------------------
(* Properties of the dictionary fields.                                     *)

\* a key as it was before the old format escaped it
Restored(key) ==
    [i \in DOMAIN key |->
        IF key[i] = "U+FF04" THEN "$" ELSE IF key[i] = "U+FF0E" THEN "." ELSE key[i]]

EscapedKey(key) == \E i \in 1..Len(key) : key[i] \in {"U+FF04", "U+FF0E"}

RECURSIVE HasEscapedKey(_)
HasEscapedKey(v) ==
    v.t = "dict" /\ \E i \in 1..Len(v.items) :
                        EscapedKey(v.items[i][1]) \/ HasEscapedKey(v.items[i][2])

\* no two keys of one dictionary are restored to the same key
RECURSIVE RestoresApart(_)
RestoresApart(v) ==
    v.t = "dict" =>
        /\ \A i, j \in 1..Len(v.items) :
              Restored(v.items[i][1]) = Restored(v.items[j][1]) => i = j
        /\ \A i \in 1..Len(v.items) : RestoresApart(v.items[i][2])

\* o is a with the keys restored at every level and everything else as it was
RECURSIVE KeysRestored(_, _)
KeysRestored(a, o) ==
    IF a.t # "dict" THEN o = a
    ELSE /\ o.t = "dict"
         /\ Len(o.items) = Len(a.items)
         /\ \A i \in 1..Len(a.items) :
               /\ o.items[i][1] = Restored(a.items[i][1])
               /\ KeysRestored(a.items[i][2], o.items[i][2])

\* == of two values: dictionaries are equal whatever the order of their items
RECURSIVE PyEq(_, _)
PyEq(a, b) ==
    IF a.t # b.t THEN FALSE
    ELSE CASE a.t = "dict" ->
                /\ Len(a.items) = Len(b.items)
                /\ \A i \in 1..Len(a.items) : \E j \in 1..Len(b.items) :
                      a.items[i][1] = b.items[j][1] /\ PyEq(a.items[i][2], b.items[j][2])
           [] a.t = "list" ->
                /\ Len(a.elems) = Len(b.elems)
                /\ \A i \in 1..Len(a.elems) : PyEq(a.elems[i], b.elems[i])
           [] OTHER -> a = b

\* C6: the compatibility field decodes by the runtime type alone: a dictionary has
\* its keys restored at every level without the backend; a str or bytes is
\* deserialized by the backend and its keys are left as they are (serializing the
\* result gives the stored text back); anything else comes back unchanged.
C6_DecodeByShape ==
    ret.op = "Compat.to_python" =>
        CASE ret.arg.t = "dict" ->
                /\ ret.calls = <<>>
                /\ ret.out.t = "dict"
                /\ ~HasEscapedKey(ret.out)
                /\ RestoresApart(ret.arg) => KeysRestored(ret.arg, ret.out)
          [] ret.arg.t \in {"str", "bytes"} ->
                /\ ret.calls = <<"json_loads">>
                /\ ret.out = json_loads(ret.arg)
                /\ ret.out.t = "dict" =>
                      ret.arg = IF ret.arg.t = "bytes" THEN Bytes(Utf8Encode(Dump(ret.out)))
                                ELSE Str(Dump(ret.out))
          [] OTHER -> ret.out = ret.arg /\ ret.calls = <<>>

C6_Witness ==
    /\ ret.op = "Compat.to_python"
    /\ ret.arg = Dict(<< <<(<<"U+FF04", "a">>),
                           Dict(<< <<(<<"a", "U+FF0E", "b">>), PyInt(IntOf(3))>> >>)>> >>)
    /\ ret.out = Dict(<< <<(<<"$", "a">>),
                           Dict(<< <<(<<"a", ".", "b">>), PyInt(IntOf(3))>> >>)>> >>)

\* a value that JSON has a type for: no tuple in it
RECURSIVE JsonNative(_)
JsonNative(v) ==
    CASE v.t = "tuple" -> FALSE
      [] v.t = "list" -> \A i \in 1..Len(v.elems) : JsonNative(v.elems[i])
      [] v.t = "dict" -> \A i \in 1..Len(v.items) : JsonNative(v.items[i][2])
      [] OTHER -> TRUE

\* the value with a list for every tuple
RECURSIVE TuplesAsLists(_)
TuplesAsLists(v) ==
    CASE v.t \in {"list", "tuple"} ->
            List([i \in 1..Len(v.elems) |-> TuplesAsLists(v.elems[i])])
      [] v.t = "dict" ->
            Dict([i \in 1..Len(v.items) |-> <<v.items[i][1], TuplesAsLists(v.items[i][2])>>])
      [] OTHER -> v

\* the dictionary a field gives back for what it encoded
DecodedAgain(op, encoded) ==
    IF op = "JSONDictField.to_mongo" THEN JSONDictField_to_python(encoded).out
    ELSE Compat_to_python(encoded).out

EncodeCalls ==
    {"JSONDictField.to_mongo", "JSONDictField.validate", "Compat.to_mongo", "Compat.validate"}

\* C9: encoding, and validating, a value that is no dictionary fails with ValueError
\* before the backend is called, with both fields.
C9_NotAMapping ==
    (ret.op \in EncodeCalls /\ ret.arg.t # "dict") =>
        ret.out = Raise("ValueError") /\ ret.calls = <<>>

C9_Witness ==
    /\ ret.op = "JSONDictField.validate"
    /\ ret.arg = PyInt(IntOf(3))
    /\ ret.out = Raise("ValueError")
    /\ ret.calls = <<>>

\* C7: once the field has been written, what is stored is serialized bytes and never
\* a native dictionary, whatever was stored before and whatever was written; a
\* write that succeeds stores bytes even of a value just decoded from the old format.
C7_NeverLegacyAgain ==
    /\ written.any => stored.t = "bytes"
    /\ (ret.op = "save" /\ ~Raised(ret.out)) =>
          /\ written.any
          /\ stored = ret.out
          /\ stored.t = "bytes"

C7_Witness ==
    /\ written = [start |-> "dict", any |-> TRUE]
    /\ ret.op = "save"
    /\ ret.arg = Dict(<< <<(<<"$", "a">>), PyInt(IntOf(3))>> >>)
    /\ doc = ret.arg
    /\ stored = Bytes(<<"{", "\"", "$", "a", "\"", ":", "3", "}">>)

====
